---- MODULE Spec2Model ----
(***************************************************************************)
(* The site deployer of gb-hardware-db (deploy/src/main.rs): it scans the  *)
(* local build tree, lists the remote bucket page by page, plans uploads   *)
(* and deletions, and then applies the plan with put and delete calls.     *)
(*                                                                         *)
(* Conventions.  Option<T> is a sequence: None is <<>> and Some(x) is      *)
(* <<x>>.  A Rust string whose characters matter (an ETag) is a sequence   *)
(* of one-character strings.  Keys are the numbers 1..NumKeys, and their   *)
(* numeric order stands for the order of the key strings in a BTreeMap.    *)
(* Time is counted in weeks since the earliest timestamp of the model.     *)
(***************************************************************************)
EXTENDS Integers, Sequences, FiniteSets, TLC

\* ------------------------------------------------------------- bounds
NumKeys == 3
NumTokens == 2
MaxPageLen == 1
MaxNow == 5
MaxExtraChars == 3
NumPlanKeys == 2
MaxListLen == 2

\* -------------------------------------------------- program constants
\* Duration::weeks(4)
Retention == 4
\* [u8; 16]
HashLen == 16

Keys == 1..NumKeys
Tokens == 1..NumTokens

None == <<>>
Some(x) == <<x>>
Option(S) == {None} \cup {Some(x) : x \in S}

Min(a, b) == IF a <= b THEN a ELSE b

\* ------------------------------------------------------ parse_e_tag
Quote == "\""
LowerHex == <<"0", "1", "2", "3", "4", "5", "6", "7", "8", "9",
              "a", "b", "c", "d", "e", "f">>
UpperHex == <<"0", "1", "2", "3", "4", "5", "6", "7", "8", "9",
              "A", "B", "C", "D", "E", "F">>

\* char::to_digit(16): the digit's value, or None
to_digit(c) ==
    IF \E i \in 1..16 : LowerHex[i] = c
    THEN Some((CHOOSE i \in 1..16 : LowerHex[i] = c) - 1)
    ELSE IF \E i \in 1..16 : UpperHex[i] = c
    THEN Some((CHOOSE i \in 1..16 : UpperHex[i] = c) - 1)
    ELSE None

RECURSIVE radix_value(_, _)
\* the digits of src folded into acc, base 16; None at the first non-digit
\* and when the value leaves the range of u8
radix_value(digits, acc) ==
    IF Len(digits) = 0 THEN Some(acc)
    ELSE LET d == to_digit(Head(digits))
         IN  IF d = None THEN None
             ELSE IF acc * 16 + d[1] > 255 THEN None
             ELSE radix_value(Tail(digits), acc * 16 + d[1])

\* u8::from_str_radix(src, 16).ok(): an unsigned type takes one leading
\* '+' and treats '-' as an invalid digit; a lone sign and the empty
\* string are errors
u8_from_str_radix(src) ==
    IF Len(src) = 0 THEN None
    ELSE IF Len(src) = 1 /\ src[1] \in {"+", "-"} THEN None
    ELSE IF src[1] = "+" THEN radix_value(Tail(src), 0)
    ELSE radix_value(src, 0)

strip_prefix(s, c) ==
    IF Len(s) >= 1 /\ s[1] = c THEN Some(Tail(s)) ELSE None

strip_suffix(s, c) ==
    IF Len(s) >= 1 /\ s[Len(s)] = c THEN Some(SubSeq(s, 1, Len(s) - 1)) ELSE None

\* slice::chunks(n): consecutive pieces of n elements, the last one shorter
chunks(s, n) ==
    [i \in 1..((Len(s) + n - 1) \div n) |->
        SubSeq(s, (i - 1) * n + 1, Min(i * n, Len(s)))]

RECURSIVE parse_chunks(_, _, _)
\* the body of the for loop of parse_e_tag, from chunk idx (0-based) on
parse_chunks(cs, idx, result) ==
    IF idx >= Len(cs) THEN Some(result)
    ELSE LET byte == u8_from_str_radix(cs[idx + 1])
         IN  IF byte = None THEN None
             ELSE IF idx >= HashLen THEN None
             ELSE parse_chunks(cs, idx + 1, [result EXCEPT ![idx + 1] = byte[1]])

parse_e_tag(e_tag) ==
    LET a == strip_prefix(e_tag, Quote)
    IN  IF a = None THEN None
        ELSE LET b == strip_suffix(a[1], Quote)
             IN  IF b = None THEN None
                 ELSE parse_chunks(chunks(b[1], 2), 0, [i \in 1..HashLen |-> 0])


\* ---------------------------------------------------- cache_control
\* A key whose characters matter is a sequence of one-character strings.
\* str::starts_with and str::ends_with
starts_with(s, pat) == Len(s) >= Len(pat) /\ SubSeq(s, 1, Len(pat)) = pat
ends_with(s, pat) == Len(s) >= Len(pat) /\ SubSeq(s, Len(s) - Len(pat) + 1, Len(s)) = pat

CC_S == "max-age=3600,public"
CC_M == "max-age=86400,public"
CC_L == "max-age=1209600,public"

cache_control(self) ==
    IF starts_with(self.key, <<"s", "t", "a", "t", "i", "c", "/">>)
    THEN (IF ends_with(self.key, <<".", "j", "p", "g">>) THEN CC_L ELSE CC_S)
    ELSE IF \/ starts_with(self.key, <<"c", "o", "n", "s", "o", "l", "e", "s", "/">>)
            \/ starts_with(self.key,
                           <<"c", "a", "r", "t", "r", "i", "d", "g", "e", "s", "/">>)
    THEN CC_M
    ELSE CC_S

\* -------------------------------------------------- the environment
\* MD5 digests: the digest of the content every local file of the model
\* holds, and the digest of some other content
H1 == [i \in 1..HashLen |-> (i * 17) % 256]
H2 == [i \in 1..HashLen |-> (i * 29 + 3) % 256]

\* the store's lower-case hexadecimal rendering of a digest
Hex(bytes) ==
    [j \in 1..(2 * Len(bytes)) |->
        IF j % 2 = 1 THEN LowerHex[(bytes[(j + 1) \div 2] \div 16) + 1]
        ELSE LowerHex[(bytes[j \div 2] % 16) + 1]]

\* the ETag of a single-part object, and of a multi-part upload of 2 parts
PlainTag(bytes) == <<Quote>> \o Hex(bytes) \o <<Quote>>
CompositeTag(bytes) == <<Quote>> \o Hex(bytes) \o <<"-", "2", Quote>>

\* last-modified strings of the listing: two RFC 3339 timestamps one week
\* apart (week 0 and week 1 of the model's time) and an RFC 2822 date,
\* which is not RFC 3339
Stamp0 == "2023-01-02T00:00:00Z"
Stamp1 == "2023-01-09T00:00:00Z"
StampRfc2822 == "Mon, 02 Jan 2023 00:00:00 GMT"

\* OffsetDateTime::parse(&timestamp, &Rfc3339).ok(), in weeks
parse_rfc3339(timestamp) ==
    IF timestamp = Stamp0 THEN Some(0)
    ELSE IF timestamp = Stamp1 THEN Some(1)
    ELSE None

\* rusoto_s3::Object without its key: size, last_modified and e_tag are
\* Options.  The four shapes cover: digest equal to the local one, with a
\* different size; another digest, with the same size; no ETag and no
\* timestamp; a multi-part ETag and a timestamp that does not parse.
Shapes == <<
    [size |-> Some(2), last_modified |-> Some(Stamp0), e_tag |-> Some(PlainTag(H1))],
    [size |-> Some(1), last_modified |-> Some(Stamp1), e_tag |-> Some(PlainTag(H2))],
    [size |-> Some(1), last_modified |-> None, e_tag |-> None],
    [size |-> Some(1), last_modified |-> Some(StampRfc2822),
     e_tag |-> Some(CompositeTag(H1))] >>

Object(key, shape) ==
    [key |-> key, size |-> shape.size, last_modified |-> shape.last_modified,
     e_tag |-> shape.e_tag]

\* an object without a size, and one without a key
NoSizeObject(k) == [Object(Some(k), Shapes[1]) EXCEPT !.size = None]
NoKeyObject == Object(None, Shapes[1])

\* the objects the store may list after it has listed up to key c
\* (ListObjectsV2 lists in key order, each key once)
ObjectsAfter(c) ==
    {Object(Some(k), Shapes[i]) : k \in (c + 1)..NumKeys, i \in DOMAIN Shapes}
        \cup {NoSizeObject(k) : k \in (c + 1)..NumKeys}
        \cup {NoKeyObject}

\* where the store's listing stands after it has listed obj
CursorAfter(c, obj) == IF obj.key = None THEN c ELSE obj.key[1]

RECURSIVE CursorAfterPage(_, _)
CursorAfterPage(c, page) ==
    IF Len(page) = 0 THEN c
    ELSE CursorAfterPage(CursorAfter(c, Head(page)), Tail(page))

RECURSIVE PagesAfter(_, _)
\* the pages of at most n objects the store may return
PagesAfter(c, n) ==
    IF n = 0 THEN {<<>>}
    ELSE {<<>>} \cup
         UNION {{<<obj>> \o rest : rest \in PagesAfter(CursorAfter(c, obj), n - 1)} :
                obj \in ObjectsAfter(c)}

\* a directory entry of the build tree
FsKinds == {"absent", "file", "unreadable", "nonutf8"}


\* ------------------------------------------------------------ state
VARIABLES
    pc,                 \* where main is
    error,              \* the error main returned, "" while there is none
    build_dir,          \* whether the build directory exists
    fs,                 \* the build tree: what lies at each key
    cursor,             \* the store: the last key it has listed, 0 at first
    handed,             \* the store: the continuation token it handed out last
    store,              \* the store: what this run did to each key's object
    now,                \* the clock (OffsetDateTime::now_utc), in weeks
    local_files,        \* main: the result of scan_local_files
    request,            \* scan_remote_files: the request of this iteration
    output,             \* scan_remote_files: the response of this iteration
    continuation_token, \* scan_remote_files: its local variable
    result,             \* scan_remote_files: its local variable; then remote_files
    to_upload,          \* main: the upload plan
    to_delete,          \* main: the deletion plan
    del_cursor,         \* main: entries of remote_index the to_delete loop has seen
    next_upload,        \* main: position of the upload loop in to_upload
    next_delete,        \* main: position of the delete loop in to_delete
    issued,             \* the put and delete calls made so far, in order
    e_tag_in,           \* parse_e_tag on its own: its argument
    e_tag_out,          \* parse_e_tag on its own: Some(what it returned)
    cc_self,            \* cache_control on its own: Some(the LocalFile it is called on)
    cc_out              \* cache_control on its own: Some(what it returned)

vars == <<pc, error, build_dir, fs, cursor, handed, store, now, local_files,
          request, output, continuation_token, result, to_upload, to_delete,
          del_cursor, next_upload, next_delete, issued, e_tag_in, e_tag_out,
          cc_self, cc_out>>

\* ------------------------------------------------- scan_local_files
\* every file of the model holds the same content: one byte, of digest H1
scan_local_file(k) == [key |-> k, len |-> 1, md5 |-> H1]

\* scan_local_file returns Err for this entry: its metadata or content
\* cannot be read, or its relative path is not UTF-8
ScanErr(tree, k) == tree[k] \in {"unreadable", "nonutf8"}

RECURSIVE FilesFrom(_, _)
FilesFrom(tree, k) ==
    IF k > NumKeys THEN <<>>
    ELSE (IF tree[k] = "file" THEN <<scan_local_file(k)>> ELSE <<>>)
         \o FilesFrom(tree, k + 1)

\* mutant of scan_local_files: entries whose scan fails are left out
scan_local_files_skipping(tree) == Some(FilesFrom(tree, 1))

\* Result<Vec<LocalFile>, Error>: None is Err; collect::<Result<..>> fails
\* when any scan_local_file fails
scan_local_files(tree) ==
    IF \E k \in Keys : ScanErr(tree, k) THEN None ELSE Some(FilesFrom(tree, 1))

\* ------------------------------------------------ scan_remote_files
\* parse_e_tag on the ETags the store of the model lists, computed once
ParsedTags ==
    [t \in {Shapes[i].e_tag[1] : i \in {j \in DOMAIN Shapes : Shapes[j].e_tag # None}} |->
        parse_e_tag(t)]

\* the RemoteFile pushed for an object that has a key and a size
\* (size as u64 leaves a size that is not negative as it is)
RemoteFileOf(obj) ==
    [key |-> obj.key[1],
     len |-> obj.size[1],
     last_modified |-> IF obj.last_modified = None THEN None
                       ELSE parse_rfc3339(obj.last_modified[1]),
     e_tag |-> IF obj.e_tag = None THEN None ELSE ParsedTags[obj.e_tag[1]]]

\* if let (Some(key), Some(size)) = (obj.key, obj.size)
HasKeyAndSize(obj) == obj.key # None /\ obj.size # None

RECURSIVE push_objects(_, _)
push_objects(res, contents) ==
    IF Len(contents) = 0 THEN res
    ELSE push_objects(
            IF HasKeyAndSize(Head(contents))
            THEN Append(res, RemoteFileOf(Head(contents))) ELSE res,
            Tail(contents))

\* mutant of push_contents: each page replaces what was collected before
push_contents_replacing(res, contents) ==
    IF contents = None THEN res ELSE push_objects(<<>>, contents[1])

\* if let Some(contents) = output.contents { for obj in contents { .. } }
push_contents(res, contents) ==
    IF contents = None THEN res ELSE push_objects(res, contents[1])

\* the request of one iteration
list_request(token) == [continuation_token |-> token]

\* if continuation_token.is_none() { break; }
loop_ends(token) == token = None

\* --------------------------------------------------------- the plan
\* collect() into a BTreeMap keyed by file.key: a later file replaces an
\* earlier one of the same key
IndexOf(files) ==
    [k \in {files[i].key : i \in DOMAIN files} |->
        files[CHOOSE i \in DOMAIN files :
                /\ files[i].key = k
                /\ \A j \in DOMAIN files : files[j].key = k => j <= i]]

local_index == IndexOf(local_files)
remote_index == IndexOf(result)

RECURSIVE SortedFrom(_, _)
SortedFrom(S, k) ==
    IF k > NumKeys THEN <<>>
    ELSE (IF k \in S THEN <<k>> ELSE <<>>) \o SortedFrom(S, k + 1)

\* the keys of a BTreeMap in iteration order
IterKeys(index) == SortedFrom(DOMAIN index, 1)

\* mutant of schedules_upload: a remote file of the same size counts as a match
schedules_upload_unless_same_size(local_file, ridx) ==
    IF local_file.key \in DOMAIN ridx
    THEN ~(\/ ridx[local_file.key].e_tag = Some(local_file.md5)
           \/ ridx[local_file.key].len = local_file.len)
    ELSE TRUE

\* mutant of schedules_upload: every local file is pushed
schedules_upload_always(local_file, ridx) == TRUE

\* one iteration of the to_upload loop: TRUE when the file is pushed
schedules_upload(local_file, ridx) ==
    IF local_file.key \in DOMAIN ridx
    THEN ~(ridx[local_file.key].e_tag = Some(local_file.md5))
    ELSE TRUE

RECURSIVE upload_loop(_, _, _, _)
upload_loop(keys, lidx, ridx, acc) ==
    IF Len(keys) = 0 THEN acc
    ELSE upload_loop(Tail(keys), lidx, ridx,
            IF schedules_upload(lidx[Head(keys)], ridx)
            THEN Append(acc, lidx[Head(keys)]) ELSE acc)

plan_uploads(lidx, ridx) == upload_loop(IterKeys(lidx), lidx, ridx, <<>>)

\* mutant of schedules_delete: the local index is not consulted
schedules_delete_ignoring_local(remote_file, lidx, t) ==
    IF remote_file.last_modified # None
    THEN (t - remote_file.last_modified[1]) > Retention
    ELSE FALSE

\* mutant of schedules_delete: a file exactly as old as the window is pushed
schedules_delete_at_boundary(remote_file, lidx, t) ==
    IF remote_file.key \in DOMAIN lidx THEN FALSE
    ELSE IF remote_file.last_modified # None
    THEN (t - remote_file.last_modified[1]) >= Retention
    ELSE FALSE

\* one iteration of the to_delete loop at clock reading t: TRUE when the
\* remote file is pushed
schedules_delete(remote_file, lidx, t) ==
    IF remote_file.key \in DOMAIN lidx THEN FALSE
    ELSE IF remote_file.last_modified # None
    THEN (t - remote_file.last_modified[1]) > Retention
    ELSE FALSE

\* mutant of next_phase: the upload loop runs before the to_delete loop
next_phase_uploads_first(p) ==
    CASE p = "start" -> "scan_local"
      [] p = "scan_local" -> "list"
      [] p = "list" -> "plan"
      [] p = "plan" -> "upload"
      [] p = "upload" -> "plan_delete"
      [] p = "plan_delete" -> "delete"
      [] p = "delete" -> "done"

\* the order of main's phases
next_phase(p) ==
    CASE p = "start" -> "scan_local"
      [] p = "scan_local" -> "list"
      [] p = "list" -> "plan"
      [] p = "plan" -> "plan_delete"
      [] p = "plan_delete" -> "upload"
      [] p = "upload" -> "delete"
      [] p = "delete" -> "done"

\* ---------------------------------------------------------- executor
\* mutant of aborts_on_guess: an uncertain guess is used like any other
aborts_on_guess_never(uncertain) == FALSE

\* if mime_guess.uncertain() { return Err(..) }
aborts_on_guess(uncertain) == uncertain

\* mutant of aborts_on_transfer: the result of the call is dropped
aborts_on_transfer_never(ok) == FALSE

\* the ? on the awaited put_object and delete_object
aborts_on_transfer(ok) == ~ok

PutCall(local_file, uncertain, ok) ==
    [op |-> "put", key |-> local_file.key, ok |-> ok, uncertain |-> uncertain]

DeleteCall(remote_file, ok) ==
    [op |-> "delete", key |-> remote_file.key, ok |-> ok, uncertain |-> FALSE]


\* --------------------------------------------- the store after the run
\* the last-modified strings the store may give an object this run has put:
\* none, or the earliest timestamp of the model
PutStamps == {None, Some(Stamp0)}

\* what a listing returns for key k once put_object of local_file has
\* succeeded: the size of the body, and as ETag the digest of the body,
\* which is the digest content_md5 carried
ObjectAfterPut(local_file, stamp) ==
    Object(Some(local_file.key),
           [size |-> Some(local_file.len), last_modified |-> stamp,
            e_tag |-> Some(PlainTag(local_file.md5))])

\* the remote_index a run that follows this one builds: an object this run
\* has put is listed as put, one it has deleted is not listed, and every
\* other object is listed as before
remote_index_after(stamp) ==
    [k \in {j \in Keys : \/ store[j] = "put"
                         \/ store[j] = "orig" /\ j \in DOMAIN remote_index} |->
        IF store[k] = "put"
        THEN RemoteFileOf(ObjectAfterPut(local_index[k], stamp))
        ELSE remote_index[k]]

\* ------------------------------------------------------------- Init
\* The clock starts one retention window after week 0 and is advanced by
\* Tick where main reads it.
Init ==
    /\ pc = "start"
    /\ error = ""
    /\ build_dir \in BOOLEAN
    /\ fs \in [Keys -> FsKinds]
    /\ (~build_dir) => fs = [k \in Keys |-> "absent"]
    /\ cursor = 0
    /\ handed = None
    /\ store = [k \in Keys |-> "orig"]
    /\ now = Retention
    /\ local_files = <<>>
    /\ request = None
    /\ output = None
    /\ continuation_token = None
    /\ result = <<>>
    /\ to_upload = <<>>
    /\ to_delete = <<>>
    /\ del_cursor = 0
    /\ next_upload = 1
    /\ next_delete = 1
    /\ issued = <<>>
    /\ e_tag_in = <<>>
    /\ e_tag_out = None
    /\ cc_self = None
    /\ cc_out = None

\* return Err(..), or a ? that propagates one
Fail(kind) ==
    /\ pc' = "failed"
    /\ error' = kind

\* ---------------------------------------------------------- actions
\* main, lines 154-157
CheckBuildDir ==
    /\ UNCHANGED <<e_tag_in, e_tag_out, cc_self, cc_out>>
    /\ pc = "start"
    /\ IF build_dir THEN pc' = next_phase("start") /\ error' = error
       ELSE Fail("no build directory")
    /\ UNCHANGED <<build_dir, fs, cursor, handed, store, now, local_files,
                   request, output, continuation_token, result, to_upload, to_delete,
                   del_cursor, next_upload, next_delete, issued>>

\* main, line 159
ScanLocal ==
    /\ UNCHANGED <<e_tag_in, e_tag_out, cc_self, cc_out>>
    /\ pc = "scan_local"
    /\ LET scanned == scan_local_files(fs)
       IN  IF scanned = None
           THEN Fail("scan") /\ local_files' = local_files
           ELSE /\ local_files' = scanned[1]
                /\ pc' = next_phase("scan_local")
                /\ error' = error
    /\ UNCHANGED <<build_dir, fs, cursor, handed, store, now,
                   request, output, continuation_token, result, to_upload, to_delete,
                   del_cursor, next_upload, next_delete, issued>>

\* scan_remote_files, lines 116-122: the request of one iteration, and the
\* store's answer: a page of the objects that follow in its listing and,
\* as it chooses, a continuation token (any token, also the one it was
\* given, and also when it has nothing more to list)
ListCall ==
    /\ UNCHANGED <<e_tag_in, e_tag_out, cc_self, cc_out>>
    /\ pc = "list"
    /\ request' = Some(list_request(continuation_token))
    /\ \E page \in PagesAfter(cursor, MaxPageLen) :
       \E contents \in (IF Len(page) = 0 THEN {None, Some(page)} ELSE {Some(page)}) :
       \E token \in Option(Tokens) :
          /\ output' = Some([contents |-> contents, next_continuation_token |-> token])
          /\ cursor' = CursorAfterPage(cursor, page)
          /\ handed' = token
    /\ pc' = "list_recv"
    /\ UNCHANGED <<error, build_dir, fs, store, now, local_files,
                   continuation_token, result, to_upload, to_delete,
                   del_cursor, next_upload, next_delete, issued>>

\* scan_remote_files, line 122, and main, line 166: the call fails
ListError ==
    /\ UNCHANGED <<e_tag_in, e_tag_out, cc_self, cc_out>>
    /\ pc = "list"
    /\ request' = Some(list_request(continuation_token))
    /\ Fail("listing")
    /\ UNCHANGED <<build_dir, fs, cursor, handed, store, now, local_files,
                   output, continuation_token, result, to_upload, to_delete,
                   del_cursor, next_upload, next_delete, issued>>

\* scan_remote_files, lines 123-141: the rest of the iteration
ListConsume ==
    /\ UNCHANGED <<e_tag_in, e_tag_out, cc_self, cc_out>>
    /\ pc = "list_recv"
    /\ result' = push_contents(result, output[1].contents)
    /\ continuation_token' = output[1].next_continuation_token
    /\ pc' = IF loop_ends(output[1].next_continuation_token)
             THEN next_phase("list") ELSE "list"
    /\ request' = None
    /\ output' = None
    /\ UNCHANGED <<error, build_dir, fs, cursor, handed, store, now, local_files,
                   to_upload, to_delete, del_cursor, next_upload, next_delete, issued>>

\* main, lines 170-193: the two indexes and the to_upload loop
PlanUpload ==
    /\ UNCHANGED <<e_tag_in, e_tag_out, cc_self, cc_out>>
    /\ pc = "plan"
    /\ to_upload' = plan_uploads(local_index, remote_index)
    /\ pc' = next_phase("plan")
    /\ UNCHANGED <<error, build_dir, fs, cursor, handed, store, now, local_files,
                   request, output, continuation_token, result, to_delete,
                   del_cursor, next_upload, next_delete, issued>>

\* time passes between two readings of the clock
Tick ==
    /\ UNCHANGED <<e_tag_in, e_tag_out, cc_self, cc_out>>
    /\ pc = "plan_delete"
    /\ del_cursor < Len(IterKeys(remote_index))
    /\ now < MaxNow
    /\ now' = now + 1
    /\ UNCHANGED <<pc, error, build_dir, fs, cursor, handed, store, local_files,
                   request, output, continuation_token, result, to_upload, to_delete,
                   del_cursor, next_upload, next_delete, issued>>

\* main, lines 196-206: one iteration of the to_delete loop
PlanDelete ==
    /\ UNCHANGED <<e_tag_in, e_tag_out, cc_self, cc_out>>
    /\ pc = "plan_delete"
    /\ del_cursor < Len(IterKeys(remote_index))
    /\ LET remote_file == remote_index[IterKeys(remote_index)[del_cursor + 1]]
       IN  to_delete' = IF schedules_delete(remote_file, local_index, now)
                        THEN Append(to_delete, remote_file) ELSE to_delete
    /\ del_cursor' = del_cursor + 1
    /\ UNCHANGED <<pc, error, build_dir, fs, cursor, handed, store, now, local_files,
                   request, output, continuation_token, result, to_upload,
                   next_upload, next_delete, issued>>

\* main, lines 207-210: the to_delete loop is over
PlanDeleteExit ==
    /\ UNCHANGED <<e_tag_in, e_tag_out, cc_self, cc_out>>
    /\ pc = "plan_delete"
    /\ del_cursor = Len(IterKeys(remote_index))
    /\ pc' = next_phase("plan_delete")
    /\ UNCHANGED <<error, build_dir, fs, cursor, handed, store, now, local_files,
                   request, output, continuation_token, result, to_upload, to_delete,
                   del_cursor, next_upload, next_delete, issued>>

\* main, lines 212-241: one iteration of the upload loop.  Reading the file
\* may fail, the guess may be uncertain, and the put may fail.
Upload ==
    /\ UNCHANGED <<e_tag_in, e_tag_out, cc_self, cc_out>>
    /\ pc = "upload"
    /\ next_upload <= Len(to_upload)
    /\ \E read_ok, uncertain, put_ok \in BOOLEAN :
       LET local_file == to_upload[next_upload]
       IN  IF ~read_ok
           THEN Fail("read") /\ UNCHANGED <<store, issued, next_upload>>
           ELSE IF aborts_on_guess(uncertain)
           THEN Fail("mime") /\ UNCHANGED <<store, issued, next_upload>>
           ELSE /\ issued' = Append(issued, PutCall(local_file, uncertain, put_ok))
                /\ store' = IF put_ok THEN [store EXCEPT ![local_file.key] = "put"]
                            ELSE store
                /\ IF aborts_on_transfer(put_ok)
                   THEN Fail("put") /\ next_upload' = next_upload
                   ELSE next_upload' = next_upload + 1 /\ UNCHANGED <<pc, error>>
    /\ UNCHANGED <<build_dir, fs, cursor, handed, now, local_files,
                   request, output, continuation_token, result, to_upload, to_delete,
                   del_cursor, next_delete>>

\* main, line 241: the upload loop is over
UploadExit ==
    /\ UNCHANGED <<e_tag_in, e_tag_out, cc_self, cc_out>>
    /\ pc = "upload"
    /\ next_upload > Len(to_upload)
    /\ pc' = next_phase("upload")
    /\ UNCHANGED <<error, build_dir, fs, cursor, handed, store, now, local_files,
                   request, output, continuation_token, result, to_upload, to_delete,
                   del_cursor, next_upload, next_delete, issued>>

\* main, lines 243-251: one iteration of the delete loop
Delete ==
    /\ UNCHANGED <<e_tag_in, e_tag_out, cc_self, cc_out>>
    /\ pc = "delete"
    /\ next_delete <= Len(to_delete)
    /\ \E delete_ok \in BOOLEAN :
       LET remote_file == to_delete[next_delete]
       IN  /\ issued' = Append(issued, DeleteCall(remote_file, delete_ok))
           /\ store' = IF delete_ok THEN [store EXCEPT ![remote_file.key] = "deleted"]
                       ELSE store
           /\ IF aborts_on_transfer(delete_ok)
              THEN Fail("delete") /\ next_delete' = next_delete
              ELSE next_delete' = next_delete + 1 /\ UNCHANGED <<pc, error>>
    /\ UNCHANGED <<build_dir, fs, cursor, handed, now, local_files,
                   request, output, continuation_token, result, to_upload, to_delete,
                   del_cursor, next_upload>>

\* main, lines 251-254: Ok(())
DeleteExit ==
    /\ UNCHANGED <<e_tag_in, e_tag_out, cc_self, cc_out>>
    /\ pc = "delete"
    /\ next_delete > Len(to_delete)
    /\ pc' = next_phase("delete")
    /\ UNCHANGED <<error, build_dir, fs, cursor, handed, store, now, local_files,
                   request, output, continuation_token, result, to_upload, to_delete,
                   del_cursor, next_upload, next_delete, issued>>

Next ==
    \/ CheckBuildDir
    \/ ScanLocal
    \/ ListCall
    \/ ListError
    \/ ListConsume
    \/ PlanUpload
    \/ Tick
    \/ PlanDelete
    \/ PlanDeleteExit
    \/ Upload
    \/ UploadExit
    \/ Delete
    \/ DeleteExit

Spec == Init /\ [][Next]_vars


\* ------------------------------------------- parse_e_tag on its own
\* The tags parse_e_tag is tried on: a body of up to 2 * HashLen +
\* MaxExtraChars characters, between two quotes, after one, before one, or
\* bare.  The body is a run of hexadecimal digits in which at most one
\* position holds another character of OddChars.
OddChars == {"F", "g", "+", "-", " ", Quote}

BodyDigits(n) == [i \in 1..n |-> LowerHex[(i % 16) + 1]]

\* the bodies of at most max characters
Bodies(max) ==
    UNION {{BodyDigits(n)} \cup
           {[BodyDigits(n) EXCEPT ![p] = c] : p \in 1..n, c \in OddChars} :
           n \in 0..max}

ETagInputs(max) ==
    UNION {{<<Quote>> \o b \o <<Quote>>, <<Quote>> \o b, b \o <<Quote>>, b} :
           b \in Bodies(max)}

InitETag ==
    /\ pc = "parse_e_tag"
    /\ error = ""
    /\ build_dir = FALSE
    /\ fs = [k \in Keys |-> "absent"]
    /\ cursor = 0
    /\ handed = None
    /\ store = [k \in Keys |-> "orig"]
    /\ now = Retention
    /\ local_files = <<>>
    /\ request = None
    /\ output = None
    /\ continuation_token = None
    /\ result = <<>>
    /\ to_upload = <<>>
    /\ to_delete = <<>>
    /\ del_cursor = 0
    /\ next_upload = 1
    /\ next_delete = 1
    /\ issued = <<>>
    /\ e_tag_in \in ETagInputs(2 * HashLen + MaxExtraChars)
    /\ e_tag_out = None
    /\ cc_self = None
    /\ cc_out = None

\* scan_remote_files, line 132: obj.e_tag.and_then(|e_tag| parse_e_tag(&e_tag))
\* for an object that has an ETag
ParseETag ==
    /\ pc = "parse_e_tag"
    /\ e_tag_out' = Some(parse_e_tag(e_tag_in))
    /\ pc' = "parsed"
    /\ UNCHANGED <<error, build_dir, fs, cursor, handed, store, now, local_files,
                   request, output, continuation_token, result, to_upload, to_delete,
                   del_cursor, next_upload, next_delete, issued, e_tag_in,
                   cc_self, cc_out>>

NextETag == ParseETag

SpecETag == InitETag /\ [][NextETag]_vars

\* ------------------------- the planner and the executor on their own
\* main from line 169 on, for inventories of every kind: the local files
\* are those of a build tree that scans without error, and remote_files is
\* any sequence of at most MaxListLen entries for the keys 1..NumPlanKeys,
\* in any order, the same key more than once included.
PlanKeys == 1..NumPlanKeys

\* the entries scan_remote_files makes of the objects a store may list
RemoteFiles(keys) ==
    {RemoteFileOf(Object(Some(k), Shapes[i])) : k \in keys, i \in DOMAIN Shapes}

RECURSIVE ListingsUpTo(_, _)
\* the sequences of at most n elements of S
ListingsUpTo(S, n) ==
    IF n = 0 THEN {<<>>}
    ELSE LET shorter == ListingsUpTo(S, n - 1)
         IN  shorter \cup {Append(l, x) : l \in shorter, x \in S}

InitPlan ==
    /\ pc = "plan"
    /\ error = ""
    /\ build_dir = TRUE
    /\ fs \in [Keys -> {"absent", "file"}]
    /\ \A k \in Keys \ PlanKeys : fs[k] = "absent"
    /\ cursor = 0
    /\ handed = None
    /\ store = [k \in Keys |-> "orig"]
    /\ now = Retention
    /\ local_files = FilesFrom(fs, 1)
    /\ request = None
    /\ output = None
    /\ continuation_token = None
    /\ result \in ListingsUpTo(RemoteFiles(PlanKeys), MaxListLen)
    /\ to_upload = <<>>
    /\ to_delete = <<>>
    /\ del_cursor = 0
    /\ next_upload = 1
    /\ next_delete = 1
    /\ issued = <<>>
    /\ e_tag_in = <<>>
    /\ e_tag_out = None
    /\ cc_self = None
    /\ cc_out = None

NextPlan ==
    \/ PlanUpload
    \/ Tick
    \/ PlanDelete
    \/ PlanDeleteExit
    \/ Upload
    \/ UploadExit
    \/ Delete
    \/ DeleteExit

SpecPlan == InitPlan /\ [][NextPlan]_vars

\* ------------------------------------------ cache_control on its own
\* The keys cache_control is tried on: a beginning, a middle and an end.
KeyHeads == {
    <<>>,
    <<"s", "t", "a", "t", "i", "c", "/">>,
    <<"s", "t", "a", "t", "i", "c">>,
    <<"s", "t", "a", "t", "i", "c", "s", "/">>,
    <<"S", "t", "a", "t", "i", "c", "/">>,
    <<"x", "/", "s", "t", "a", "t", "i", "c", "/">>,
    <<"c", "o", "n", "s", "o", "l", "e", "s", "/">>,
    <<"c", "o", "n", "s", "o", "l", "e", "s">>,
    <<"c", "a", "r", "t", "r", "i", "d", "g", "e", "s", "/">>,
    <<"c", "a", "r", "t", "r", "i", "d", "g", "e">> }

KeyMiddles == {
    <<>>,
    <<"a">>,
    <<"a", "/", "b">>,
    <<"a", ".", "j", "p", "g", "/", "b">>,
    <<"s", "t", "a", "t", "i", "c", "/", "a">> }

KeyTails == {
    <<>>,
    <<".", "j", "p", "g">>,
    <<".", "j", "p", "e", "g">>,
    <<".", "p", "n", "g">>,
    <<".", "g", "i", "f">>,
    <<".", "w", "e", "b", "p">>,
    <<".", "J", "P", "G">>,
    <<"j", "p", "g">>,
    <<".", "j", "p", "g", ".", "g", "z">>,
    <<".", "h", "t", "m", "l">>,
    <<".", "j", "s">> }

KeyStrings == {h \o m \o t : h \in KeyHeads, m \in KeyMiddles, t \in KeyTails}

InitCacheControl ==
    /\ pc = "cache_control"
    /\ error = ""
    /\ build_dir = FALSE
    /\ fs = [k \in Keys |-> "absent"]
    /\ cursor = 0
    /\ handed = None
    /\ store = [k \in Keys |-> "orig"]
    /\ now = Retention
    /\ local_files = <<>>
    /\ request = None
    /\ output = None
    /\ continuation_token = None
    /\ result = <<>>
    /\ to_upload = <<>>
    /\ to_delete = <<>>
    /\ del_cursor = 0
    /\ next_upload = 1
    /\ next_delete = 1
    /\ issued = <<>>
    /\ e_tag_in = <<>>
    /\ e_tag_out = None
    /\ \E key \in KeyStrings, len \in {0, 1}, md5 \in {H1, H2} :
          cc_self = Some([key |-> key, len |-> len, md5 |-> md5])
    /\ cc_out = None

\* main, line 237: local_file.cache_control()
CacheControl ==
    /\ pc = "cache_control"
    /\ cc_out' = Some(cache_control(cc_self[1]))
    /\ pc' = "classified"
    /\ UNCHANGED <<error, build_dir, fs, cursor, handed, store, now, local_files,
                   request, output, continuation_token, result, to_upload, to_delete,
                   del_cursor, next_upload, next_delete, issued, e_tag_in, e_tag_out,
                   cc_self>>

NextCacheControl == CacheControl

SpecCacheControl == InitCacheControl /\ [][NextCacheControl]_vars

\* a run that keeps running: main is a single task, and every call it awaits
\* returns
FairSpec == Spec /\ WF_vars(Next)

\* ----------------------------------------------- notions of the claims
UploadKeys == {to_upload[i].key : i \in DOMAIN to_upload}
DeleteKeys == {to_delete[i].key : i \in DOMAIN to_delete}
PutKeys == {issued[i].key : i \in {j \in DOMAIN issued : issued[j].op = "put"}}
DeletedKeys == {issued[i].key : i \in {j \in DOMAIN issued : issued[j].op = "delete"}}

\* main has both inventories: scan_remote_files has returned Ok
InventoriesDone ==
    \/ pc \in {"plan", "plan_delete", "upload", "delete", "done"}
    \/ pc = "failed" /\ error \in {"read", "mime", "put", "delete"}

\* the to_upload loop is over
UploadsPlanned == InventoriesDone /\ pc # "plan"

\* the to_delete loop is over
DeletionsPlanned ==
    \/ pc \in {"upload", "delete", "done"}
    \/ pc = "failed" /\ error \in {"read", "mime", "put", "delete"}

\* the run has ended, and nothing more happens
Stopped == pc \in {"done", "failed"} /\ ~ENABLED Next

\* C1: once the upload plan is computed, a local key is in it if and only if
\* the remote inventory lacks the key, or holds it without a content hash,
\* or holds it with a content hash other than the local one; sizes play no
\* part.
C1_UploadIff ==
    UploadsPlanned =>
        \A k \in DOMAIN local_index :
            k \in UploadKeys <=>
                \/ k \notin DOMAIN remote_index
                \/ remote_index[k].e_tag = None
                \/ remote_index[k].e_tag[1] # local_index[k].md5

\* a key with equal sizes and no remote hash is uploaded, and a key with
\* equal hashes and different sizes is not
C1_Witness ==
    /\ UploadsPlanned
    /\ \E k \in DOMAIN local_index \cap DOMAIN remote_index :
          /\ remote_index[k].e_tag = None
          /\ remote_index[k].len = local_index[k].len
          /\ k \in UploadKeys
    /\ \E k \in DOMAIN local_index \cap DOMAIN remote_index :
          /\ remote_index[k].e_tag = Some(local_index[k].md5)
          /\ remote_index[k].len # local_index[k].len
          /\ k \notin UploadKeys

\* the keys both inventories hold with equal content hashes
MatchedKeys ==
    {k \in DOMAIN local_index \cap DOMAIN remote_index :
        remote_index[k].e_tag = Some(local_index[k].md5)}

\* C2: a key that both inventories hold with equal content hashes is in
\* neither plan, and no put and no delete is issued for it at any time: the
\* store keeps its object as it was.
C2_MatchedUntouched ==
    InventoriesDone =>
        \A k \in MatchedKeys :
            /\ k \notin UploadKeys
            /\ k \notin DeleteKeys
            /\ \A i \in DOMAIN issued : issued[i].key # k
            /\ store[k] = "orig"

\* a finished run that put and deleted other keys beside a matched key old
\* enough to be deleted had it been remote-only
C2_Witness ==
    /\ pc = "done"
    /\ PutKeys # {}
    /\ DeletedKeys # {}
    /\ \E k \in MatchedKeys :
          /\ remote_index[k].last_modified # None
          /\ now - remote_index[k].last_modified[1] > Retention


\* the entry the to_delete loop looks at next
NextJudged == remote_index[IterKeys(remote_index)[del_cursor + 1]]

\* a last-modified string of the listing that is an RFC 3339 timestamp
IsRfc3339(timestamp) == timestamp \in {Stamp0, Stamp1}

\* the objects of the page in hand that scan_remote_files keeps
KeptOfPage ==
    IF output = None \/ output[1].contents = None THEN <<>>
    ELSE SelectSeq(output[1].contents[1], HasKeyAndSize)

\* C3: retention gate.  The to_delete loop pushes a remote-only entry whose
\* last-modified time is known and more than four weeks before the clock
\* reading, pushes none that is four weeks old or younger, and none whose
\* last-modified time is unknown; the time is unknown when the listing
\* gives none or gives a string that is no RFC 3339 timestamp.  Nothing else
\* ever changes the deletion plan.
C3_RetentionGate ==
    [][/\ (pc = "plan_delete" /\ del_cursor' = del_cursor + 1
             /\ NextJudged.key \notin DOMAIN local_index) =>
            LET known == NextJudged.last_modified # None
            IN  /\ (known /\ now - NextJudged.last_modified[1] > Retention)
                      => to_delete' = Append(to_delete, NextJudged)
                /\ (known /\ now - NextJudged.last_modified[1] <= Retention)
                      => to_delete' = to_delete
                /\ (~known) => to_delete' = to_delete
       /\ to_delete' # to_delete => (pc = "plan_delete" /\ del_cursor' = del_cursor + 1)
       /\ \A i \in DOMAIN to_delete' : to_delete'[i].last_modified # None
       /\ pc = "list_recv" =>
            \A i \in DOMAIN KeptOfPage :
                (\/ KeptOfPage[i].last_modified = None
                 \/ ~IsRfc3339(KeptOfPage[i].last_modified[1]))
                    => /\ Len(result') >= Len(result) + i
                       /\ result'[Len(result) + i].last_modified = None
      ]_vars

\* three remote-only keys once the plan is made: one older than the window
\* and planned for deletion, one exactly as old as the window and not
\* planned, one of unknown age and not planned
C3_Witness ==
    /\ DeletionsPlanned
    /\ \E k \in DeleteKeys :
          k \notin DOMAIN local_index /\ now - remote_index[k].last_modified[1] > Retention
    /\ \E k \in DOMAIN remote_index \ (DOMAIN local_index \cup DeleteKeys) :
          /\ remote_index[k].last_modified # None
          /\ now - remote_index[k].last_modified[1] = Retention
    /\ \E k \in DOMAIN remote_index \ (DOMAIN local_index \cup DeleteKeys) :
          remote_index[k].last_modified = None

\* C4: classification gate.  No put ever carries an uncertain guess.  When
\* the guess for a candidate is uncertain the run has failed and stopped,
\* the puts issued are those of the candidates before it, in plan order, and
\* no delete has been issued.
C4_ClassificationGate ==
    /\ \A i \in DOMAIN issued : ~issued[i].uncertain
    /\ error = "mime" =>
          /\ Stopped
          /\ pc = "failed"
          /\ next_upload \in DOMAIN to_upload
          /\ Len(issued) = next_upload - 1
          /\ \A i \in DOMAIN issued :
                issued[i].op = "put" /\ issued[i].key = to_upload[i].key
          /\ \A i \in next_upload..Len(to_upload) : to_upload[i].key \notin PutKeys
          /\ DeletedKeys = {}

\* an uncertain candidate with a candidate before it, one after it, or a
\* planned deletion: here one after it and a planned deletion
C4_Witness ==
    /\ error = "mime"
    /\ next_upload < Len(to_upload)
    /\ to_delete # <<>>

\* the calls of a complete run, in order
PlannedCalls ==
    [i \in DOMAIN to_upload |-> PutCall(to_upload[i], FALSE, TRUE)]
        \o [i \in DOMAIN to_delete |-> DeleteCall(to_delete[i], TRUE)]

\* what the successful calls issued so far make of key k's object
EffectOn(k) ==
    IF \E i \in DOMAIN issued : issued[i].key = k /\ issued[i].ok
    THEN LET i == CHOOSE j \in DOMAIN issued :
                    /\ issued[j].key = k /\ issued[j].ok
                    /\ \A l \in DOMAIN issued :
                          (issued[l].key = k /\ issued[l].ok) => l <= j
         IN  IF issued[i].op = "put" THEN "put" ELSE "deleted"
    ELSE "orig"

\* C5: a run that ends in success has issued every planned put and delete,
\* in order, and each succeeded.  A call that fails is the last call of the
\* run: the run has failed and stopped.  At all times the store differs from
\* its initial state by the successful calls only, and the calls issued are
\* a prefix of the planned ones but for the result of the last.
C5_AllOrStop ==
    /\ pc = "done" => issued = PlannedCalls
    /\ \A i \in DOMAIN issued :
          /\ i <= Len(PlannedCalls)
          /\ issued[i].op = PlannedCalls[i].op
          /\ issued[i].key = PlannedCalls[i].key
          /\ ~issued[i].ok =>
                /\ i = Len(issued)
                /\ pc = "failed"
                /\ error = issued[i].op
                /\ Stopped
    /\ error \in {"put", "delete"} => (issued # <<>> /\ ~issued[Len(issued)].ok)
    /\ \A k \in Keys : store[k] = EffectOn(k)

\* a delete fails after a put succeeded, and a later planned delete is left
\* undone: the store holds the put and nothing else
C5_Witness ==
    /\ error = "delete"
    /\ PutKeys # {}
    /\ next_delete < Len(to_delete)
    /\ \E k \in Keys : store[k] = "put"
    /\ \A k \in DeleteKeys : store[k] = "orig"


\* the local scan has completed
LocalScanDone ==
    /\ \A k \in Keys : ~ScanErr(fs, k)
    /\ local_files = FilesFrom(fs, 1)

\* the remote listing has returned its last page, and main has it
RemoteListingDone ==
    /\ InventoriesDone
    /\ handed = None
    /\ continuation_token = None
    /\ request = None
    /\ output = None

\* both plans are fully computed
PlansComputed ==
    /\ DeletionsPlanned
    /\ to_upload = plan_uploads(local_index, remote_index)
    /\ del_cursor = Len(IterKeys(remote_index))

\* C6: a step that issues a put or a delete, or follows one, starts from a
\* state where the local scan is complete, the remote listing has returned
\* its last page and both plans are computed, and it changes neither an
\* inventory, nor a plan, nor the store's listing position: no listing call
\* and no plan change happens from the first put or delete on.
C6_PlanBeforeMutation ==
    [][issued' # <<>> =>
          /\ LocalScanDone /\ RemoteListingDone /\ PlansComputed
          /\ pc \in {"upload", "delete"}
          /\ UNCHANGED <<local_files, result, to_upload, to_delete, del_cursor,
                         request, output, continuation_token, cursor, handed>>
      ]_vars

\* the first call is a delete, issued after a listing of several pages
C6_Witness ==
    /\ Len(issued) = 1
    /\ issued[1].op = "delete"
    /\ Len(result) >= 2
    /\ local_files # <<>>

\* some entry of the build tree cannot be scanned
LocalScanFails == \E k \in Keys : ScanErr(fs, k)

\* the listing call failed: a request was made and no response is in hand
ListingFailed == request # None /\ output = None

\* C7: when the local scan has failed, or a page of the remote listing has
\* failed, the run has ended in error and stopped, no put or delete has been
\* issued, the store is as it was, and no deletion has been planned.
C7_ScanFailureStops ==
    /\ (build_dir /\ LocalScanFails /\ pc \notin {"start", "scan_local"}) =>
          /\ pc = "failed" /\ error = "scan" /\ Stopped
          /\ issued = <<>>
          /\ \A k \in Keys : store[k] = "orig"
          /\ request = None
    /\ ListingFailed =>
          /\ pc = "failed" /\ error = "listing" /\ Stopped
          /\ issued = <<>>
          /\ \A k \in Keys : store[k] = "orig"
          /\ to_upload = <<>> /\ to_delete = <<>> /\ del_cursor = 0

\* a later page of the listing fails: the inventory in hand is partial, and
\* holds a remote-only entry old enough to be deleted
C7_Witness ==
    /\ ListingFailed
    /\ local_files # <<>>
    /\ \E i \in DOMAIN result :
          /\ result[i].key \notin DOMAIN local_index
          /\ result[i].last_modified # None
          /\ now - result[i].last_modified[1] >= Retention


\* scan_remote_files is running
Listing == pc \in {"list", "list_recv"}

\* C8: the listing loop terminates whatever the store answers: a run that
\* keeps running gets past scan_remote_files (it returns, or fails).
C8_ListingTerminates == <>(pc \notin {"start", "scan_local", "list", "list_recv"})

\* C8, the progress the claim names: an iteration of the listing loop ends
\* the pagination or leaves the loop with another token than it started with.
C8_TokenProgress ==
    [][pc = "list_recv" =>
          (continuation_token' = None \/ continuation_token' # continuation_token)]_vars

\* an entry of result for object obj
EntryFor(obj, remote_file) ==
    /\ obj.key = Some(remote_file.key)
    /\ obj.size = Some(remote_file.len)

\* the objects of the page in hand
PageInHand ==
    IF output = None \/ output[1].contents = None THEN <<>> ELSE output[1].contents[1]

\* the entries an iteration adds to result
Added == SubSeq(result', Len(result) + 1, Len(result'))

\* result is extended, and only by scan_remote_files; each request carries
\* the token the store handed out with the page before (none at first); the
\* loop asks again exactly when the store handed out a token
ListingProtocol ==
    /\ Len(result') >= Len(result)
    /\ SubSeq(result', 1, Len(result)) = result
    /\ result' # result => pc = "list_recv"
    /\ (pc = "list" /\ pc' = "list_recv") =>
          request' = Some([continuation_token |-> handed])
    /\ pc = "list_recv" =>
          /\ (handed # None) <=> pc' = "list"
          /\ (handed = None) <=> pc' = "plan"

\* C9 as stated: scan_remote_files follows the tokens until the store hands
\* out none, and every object of every page has an entry in its result.
C9_EveryObjectListed ==
    [][/\ ListingProtocol
       /\ pc = "list_recv" =>
             \A i \in DOMAIN PageInHand :
                \E j \in DOMAIN Added : EntryFor(PageInHand[i], Added[j])
      ]_vars

\* C9 as amended: every object of every page that carries both a key and a
\* size has an entry in the result, in the order of the listing, and the
\* result holds nothing else.
C9_EveryKeyedObjectListed ==
    [][/\ ListingProtocol
       /\ pc = "list_recv" =>
             /\ Len(Added) = Len(KeptOfPage)
             /\ \A i \in DOMAIN KeptOfPage : EntryFor(KeptOfPage[i], Added[i])
      ]_vars

\* scan_remote_files has returned a result of several pages, and the store
\* had listed an object beyond the last entry: one that carried no size
C9_Witness ==
    /\ pc = "plan"
    /\ Len(result) >= 2
    /\ cursor > result[Len(result)].key


\* a double-quoted string of exactly 2 * HashLen hexadecimal digits
IsPlainTag(tag) ==
    /\ Len(tag) = 2 * HashLen + 2
    /\ tag[1] = Quote
    /\ tag[Len(tag)] = Quote
    /\ \A i \in 2..(Len(tag) - 1) : to_digit(tag[i]) # None

\* the bytes the digits of a plain tag encode
BytesOfTag(tag) ==
    [i \in 1..HashLen |-> 16 * to_digit(tag[2 * i])[1] + to_digit(tag[2 * i + 1])[1]]

\* C10: parse_e_tag returns the bytes the digits encode for a double-quoted
\* string of exactly 32 hexadecimal digits, and no hash for any other tag.
C10_PlainTagsOnly ==
    e_tag_out # None =>
        e_tag_out[1] = IF IsPlainTag(e_tag_in) THEN Some(BytesOfTag(e_tag_in)) ELSE None


\* the part of each plan that has not been applied
UploadsLeft == SubSeq(to_upload, next_upload, Len(to_upload))
DeletesLeft == SubSeq(to_delete, next_delete, Len(to_delete))

\* a remote-only key this run has judged and kept
KeptRemoteOnly(k) ==
    /\ k \in DOMAIN remote_index
    /\ k \notin DOMAIN local_index
    /\ k \notin DeleteKeys

\* the clock readings of a later run
LaterReadings == now..(MaxNow + 1)

DeletionsAt(t) ==
    LET keys == IterKeys(remote_index)
    IN  SelectSeq([i \in DOMAIN keys |-> remote_index[keys[i]]],
                  LAMBDA remote_file : schedules_delete(remote_file, local_index, t))

\* the clock readings of a run
Readings == Retention..MaxNow

\* C12: the plan is a function of the two inventories, one current time and
\* the retention constant: the upload plan is the planner's result for the
\* two inventories, the deletion plan is its result for them at one instant,
\* and two remote-only entries with the same last-modified time are both
\* planned for deletion or both kept.
C12_PlanOfOneInstant ==
    DeletionsPlanned =>
        /\ to_upload = plan_uploads(local_index, remote_index)
        /\ \E t \in Readings : to_delete = DeletionsAt(t)
        /\ \A k1, k2 \in DOMAIN remote_index \ DOMAIN local_index :
              remote_index[k1].last_modified = remote_index[k2].last_modified
                  => (k1 \in DeleteKeys <=> k2 \in DeleteKeys)

\* the key lies in the static namespace, or in a catalog namespace
InStatic(key) == starts_with(key, <<"s", "t", "a", "t", "i", "c", "/">>)
InCatalog(key) ==
    \/ starts_with(key, <<"c", "o", "n", "s", "o", "l", "e", "s", "/">>)
    \/ starts_with(key, <<"c", "a", "r", "t", "r", "i", "d", "g", "e", "s", "/">>)

\* extensions of image files
ImageExtensions == {<<"j", "p", "g">>, <<"j", "p", "e", "g">>, <<"p", "n", "g">>,
                    <<"g", "i", "f">>, <<"w", "e", "b", "p">>}

\* the key ends in a dot and the extension
BearsExtension(key, ext) == ends_with(key, <<".">> \o ext)

\* C13: cache_control returns the long lifetime for a key in the static
\* namespace that bears an image extension, the medium lifetime for a key in
\* a catalog namespace, and the short lifetime for every other key.
C13_ThreeClasses ==
    cc_out # None =>
        LET key == cc_self[1].key
        IN  cc_out[1] =
               IF InStatic(key) /\ \E ext \in ImageExtensions : BearsExtension(key, ext)
               THEN CC_L
               ELSE IF InCatalog(key) THEN CC_M
               ELSE CC_S

\* C13 for the one extension the code knows: the long lifetime is returned
\* for the keys of the static namespace that end in ".jpg", whatever the
\* size and the digest of the file.
C13_JpgOnly ==
    cc_out # None =>
        LET key == cc_self[1].key
        IN  /\ cc_out[1] \in {CC_S, CC_M, CC_L}
            /\ cc_out[1] = CC_L <=> (InStatic(key) /\ BearsExtension(key, <<"j", "p", "g">>))
            /\ cc_out[1] = CC_M <=> (InCatalog(key) /\ ~InStatic(key))

\* the keys of the two inventories
LocalKeys == {local_files[i].key : i \in DOMAIN local_files}
RemoteKeys == {result[i].key : i \in DOMAIN result}

\* no key occurs twice in the plan
DistinctKeys(plan) ==
    \A i, j \in DOMAIN plan : plan[i].key = plan[j].key => i = j

\* C14: whatever the two inventories are, a remote listing that returns a
\* key more than once included, every upload key is a local key, every
\* deletion key is a remote key that no local file has, no key is in both
\* plans, no key occurs twice in a plan, and no delete is issued for a key
\* that a local file has.
C14_PlanSets ==
    /\ UploadKeys \subseteq LocalKeys
    /\ DeleteKeys \subseteq RemoteKeys \ LocalKeys
    /\ UploadKeys \cap DeleteKeys = {}
    /\ DistinctKeys(to_upload)
    /\ DistinctKeys(to_delete)
    /\ DeletedKeys \cap LocalKeys = {}

\* a complete run on a listing that returned a remote-only key twice, both
\* times old enough: the key is planned for deletion once, and deleted
C14_Witness ==
    /\ pc = "done"
    /\ Len(result) = 2
    /\ result[1].key = result[2].key
    /\ result[1] # result[2]
    /\ result[1].last_modified # None /\ result[2].last_modified # None
    /\ Len(to_delete) = 1
    /\ to_delete[1].key = result[1].key
    /\ DeletedKeys = {result[1].key}
    /\ LocalKeys # {}

====
